---- MODULE Spec2Model ----
(***************************************************************************)
(* WProxy (src/main.go): a forward HTTP/HTTPS proxy.  The file holds two   *)
(* variants of the program: lines 1-110 (no authentication) and lines      *)
(* 112-248 (with the -a credential and checkAuth).  The handlers           *)
(* handleTunneling, transfer, handleHTTP and copyHeader are identical in   *)
(* both; line numbers below refer to the second variant unless said.       *)
(*                                                                         *)
(* Go strings are byte sequences: a string is modelled as a sequence of    *)
(* byte values (ASCII codes), e.g. "Basic" = <<66, 97, 115, 105, 99>>.     *)
(***************************************************************************)
EXTENDS Integers, Sequences, FiniteSets, TLC

\* ------------------------------------------------------------------------
\* Bounds of the model
\* ------------------------------------------------------------------------
\* bytes each peer of a tunnel writes at most
MaxBytes == 3
\* capacity (bytes) of the send buffer of a socket towards its peer
SockBuf == 1

\* ------------------------------------------------------------------------
\* Byte strings
\* ------------------------------------------------------------------------
SP == 32
COMMA == 44
COLON == 58
EQUALS == 61
LBRACKET == 91
RBRACKET == 93
CR == 13
LF == 10

\* the literal "Basic" compared against in checkAuth
BasicStr == <<66, 97, 115, 105, 99>>

\* index of the first occurrence of byte b in s, 0 when there is none
RECURSIVE IndexFrom(_, _, _)
IndexFrom(s, b, i) ==
    IF i > Len(s) THEN 0
    ELSE IF s[i] = b THEN i
    ELSE IndexFrom(s, b, i + 1)

IndexByte(s, b) == IndexFrom(s, b, 1)

\* index of the last occurrence of byte b in s, 0 when there is none
RECURSIVE LastIndexFrom(_, _, _)
LastIndexFrom(s, b, i) ==
    IF i < 1 THEN 0
    ELSE IF s[i] = b THEN i
    ELSE LastIndexFrom(s, b, i - 1)

LastIndexByte(s, b) == LastIndexFrom(s, b, Len(s))

\* strings.SplitN(s, " ", 2): at most two parts, cut at the first space
SplitN2(s) ==
    LET i == IndexByte(s, SP) IN
    IF i = 0 THEN <<s>>
    ELSE <<SubSeq(s, 1, i - 1), SubSeq(s, i + 1, Len(s))>>

\* strings.Join(v, ", ")
RECURSIVE Join(_)
Join(v) ==
    IF Len(v) = 0 THEN <<>>
    ELSE IF Len(v) = 1 THEN v[1]
    ELSE v[1] \o <<COMMA, SP>> \o Join(Tail(v))

\* ------------------------------------------------------------------------
\* encoding/base64, StdEncoding.DecodeString
\* ------------------------------------------------------------------------
\* value of a byte in the standard alphabet, -1 when it is not in it
B64Val(c) ==
    IF c >= 65 /\ c <= 90 THEN c - 65
    ELSE IF c >= 97 /\ c <= 122 THEN c - 97 + 26
    ELSE IF c >= 48 /\ c <= 57 THEN c - 48 + 52
    ELSE IF c = 43 THEN 62
    ELSE IF c = 47 THEN 63
    ELSE -1

\* the decoder skips '\r' and '\n'
RECURSIVE StripNewlines(_)
StripNewlines(s) ==
    IF Len(s) = 0 THEN <<>>
    ELSE IF Head(s) = CR \/ Head(s) = LF THEN StripNewlines(Tail(s))
    ELSE <<Head(s)>> \o StripNewlines(Tail(s))

\* one quantum of four input bytes; "last" says it is the final quantum,
\* where "xx==" and "xxx=" padding is accepted.  Trailing bits are not
\* checked (StdEncoding is not Strict).
DecodeQuantum(q, last) ==
    LET v1 == B64Val(q[1])
        v2 == B64Val(q[2])
        v3 == B64Val(q[3])
        v4 == B64Val(q[4])
    IN  IF v1 < 0 \/ v2 < 0 THEN [err |-> TRUE, out |-> <<>>]
        ELSE IF last /\ q[3] = EQUALS /\ q[4] = EQUALS
             THEN [err |-> FALSE, out |-> <<v1 * 4 + (v2 \div 16)>>]
        ELSE IF v3 < 0 THEN [err |-> TRUE, out |-> <<>>]
        ELSE IF last /\ q[4] = EQUALS
             THEN [err |-> FALSE,
                   out |-> <<v1 * 4 + (v2 \div 16),
                             (v2 % 16) * 16 + (v3 \div 4)>>]
        ELSE IF v4 < 0 THEN [err |-> TRUE, out |-> <<>>]
        ELSE [err |-> FALSE,
              out |-> <<v1 * 4 + (v2 \div 16),
                        (v2 % 16) * 16 + (v3 \div 4),
                        (v3 % 4) * 64 + v4>>]

RECURSIVE DecodeQuanta(_)
DecodeQuanta(s) ==
    IF Len(s) = 0 THEN [err |-> FALSE, out |-> <<>>]
    ELSE IF Len(s) < 4 THEN [err |-> TRUE, out |-> <<>>]
    ELSE LET d == DecodeQuantum(SubSeq(s, 1, 4), Len(s) = 4)
             r == DecodeQuanta(SubSeq(s, 5, Len(s)))
         IN  IF d.err \/ r.err THEN [err |-> TRUE, out |-> <<>>]
             ELSE [err |-> FALSE, out |-> d.out \o r.out]

DecodeString(s) == DecodeQuanta(StripNewlines(s))

\* net.SplitHostPort: [err, host].  The port is not used by the caller.
SplitHostPort(hostport) ==
    LET i == LastIndexByte(hostport, COLON)
        bad == [err |-> TRUE, host |-> <<>>]
    IN  IF i = 0 THEN bad
        ELSE IF hostport[1] = LBRACKET
        THEN LET end == IndexByte(hostport, RBRACKET) IN
             IF end = 0 THEN bad
             ELSE IF end = Len(hostport) THEN bad
             ELSE IF end + 1 # i THEN bad
             ELSE LET host == SubSeq(hostport, 2, end - 1) IN
                  IF IndexByte(SubSeq(hostport, 2, Len(hostport)), LBRACKET) # 0
                  THEN bad
                  ELSE IF IndexByte(SubSeq(hostport, end + 1, Len(hostport)),
                                    RBRACKET) # 0
                  THEN bad
                  ELSE [err |-> FALSE, host |-> host]
        ELSE LET host == SubSeq(hostport, 1, i - 1) IN
             IF IndexByte(host, COLON) # 0 THEN bad
             ELSE IF IndexByte(hostport, LBRACKET) # 0 THEN bad
             ELSE IF IndexByte(hostport, RBRACKET) # 0 THEN bad
             ELSE [err |-> FALSE, host |-> host]

\* ------------------------------------------------------------------------
\* http.Header: a map from key to the list of its values
\* ------------------------------------------------------------------------
NoHeader == [k \in {} |-> <<>>]

\* Header.Get: the first value of the key, "" when the key is absent
HeaderGet(h, k) ==
    IF k \in DOMAIN h /\ Len(h[k]) > 0 THEN h[k][1] ELSE <<>>

\* Header.Set: the key holds exactly the one value afterwards
HeaderSet(h, k, v) ==
    [x \in DOMAIN h \cup {k} |-> IF x = k THEN <<v>> ELSE h[x]]

\* Header.Add: the value is appended to the values of the key
HeaderAdd(h, k, v) ==
    [x \in DOMAIN h \cup {k} |->
        IF x = k THEN (IF k \in DOMAIN h THEN Append(h[k], v) ELSE <<v>>)
        ELSE h[x]]

\* ------------------------------------------------------------------------
\* Inputs: configurations and requests
\* ------------------------------------------------------------------------
\* "a:b" and "a:bc", the values of the -a flag tried; "" disables the gate
CredAB == <<97, 58, 98>>
CredABC == <<97, 58, 98, 99>>
Credentials == {<<>>, CredAB, CredABC}

\* "YTpi" = base64("a:b"), "YTpiYw==" = base64("a:bc")
PayAB == <<89, 84, 112, 105>>
PayABC == <<89, 84, 112, 105, 89, 119, 61, 61>>

\* values of the Proxy-Authorization header tried
ProxyAuthValues ==
    { BasicStr \o <<SP>> \o PayAB,                    \* "Basic YTpi"
      BasicStr \o <<SP>> \o PayABC,                   \* "Basic YTpiYw=="
      BasicStr \o <<SP>> \o <<89, 84, 112, 105, 89, 120, 61, 61>>,
                                                      \* "Basic YTpiYx=="
      <<98, 97, 115, 105, 99, SP>> \o PayAB,          \* "basic YTpi"
      <<66, 65, 83, 73, 67, SP>> \o PayAB,            \* "BASIC YTpi"
      <<66, 101, 97, 114, 101, 114, SP>> \o PayAB,    \* "Bearer YTpi"
      PayAB,                                          \* "YTpi"
      BasicStr \o PayAB,                              \* "BasicYTpi"
      BasicStr \o <<SP, SP>> \o PayAB,                \* "Basic  YTpi"
      BasicStr \o <<SP>> \o PayAB \o <<SP>> \o PayAB, \* "Basic YTpi YTpi"
      BasicStr \o <<SP>> \o <<89, 84, 112>>,          \* "Basic YTp"
      BasicStr \o <<SP>> \o <<89, 84, 112, 33>>,      \* "Basic YTp!"
      BasicStr \o <<SP>> \o <<89, 84, 112, 61>>,      \* "Basic YTp="
      BasicStr \o <<SP>> \o <<89, 84, 112, 106>>,     \* "Basic YTpj" = a:c
      BasicStr \o <<SP>> \o CredAB,                   \* "Basic a:b"
      BasicStr,                                       \* "Basic"
      <<>> }                                          \* ""

\* "A" and "C", values of an inbound X-Forwarded-For header
IpA == <<65>>
IpC == <<67>>
XFFValues == { <<IpA>>, <<IpA, IpC>>, <<IpA \o <<COMMA, SP>> \o IpC>> }

\* "B:1", "[::1]:1", and two addresses without a host:port form: "B", "B:B:1"
RemoteAddrs ==
    { <<66, COLON, 49>>,
      <<LBRACKET, COLON, COLON, 49, RBRACKET, COLON, 49>>,
      <<66>>,
      <<66, COLON, 66, COLON, 49>> }

Methods == {"CONNECT", "GET", "POST"}

KeyProxyAuthorization == "Proxy-Authorization"
KeyXForwardedFor == "X-Forwarded-For"
KeyProxyAuthenticate == "Proxy-Authenticate"

\* the header map of a request carrying the given optional headers
MkHeader(hasPA, pa, hasXFF, xff) ==
    [k \in (IF hasPA THEN {KeyProxyAuthorization} ELSE {})
           \cup (IF hasXFF THEN {KeyXForwardedFor} ELSE {}) |->
        IF k = KeyProxyAuthorization THEN <<pa>> ELSE xff]

RequestHeaders ==
    { MkHeader(hasPA, pa, hasXFF, xff) :
        hasPA \in BOOLEAN, pa \in ProxyAuthValues,
        hasXFF \in BOOLEAN, xff \in XFFValues }

\* the target and the body the requests of a method are taken with
TargetOf(m) == IF m = "CONNECT" THEN "example.com:443"
               ELSE "http://example.com/"

BodyOf(m) == IF m = "POST" THEN <<"d", "a", "t", "a">> ELSE <<>>

\* CONNECT requests are taken without X-Forwarded-For and from one address:
\* handleTunneling reads neither
ConnectRequests ==
    { [Method |-> "CONNECT", Header |-> MkHeader(hasPA, pa, FALSE, <<>>),
       RemoteAddr |-> <<66, COLON, 49>>, Target |-> TargetOf("CONNECT"),
       Body |-> BodyOf("CONNECT")] :
        hasPA \in BOOLEAN, pa \in ProxyAuthValues }

HTTPRequests ==
    { [Method |-> m, Header |-> h, RemoteAddr |-> a, Target |-> TargetOf(m),
       Body |-> BodyOf(m)] :
        m \in Methods \ {"CONNECT"}, h \in RequestHeaders, a \in RemoteAddrs }

Requests == ConnectRequests \cup HTTPRequests

NoReq == [Method |-> "", Header |-> NoHeader, RemoteAddr |-> <<>>,
          Target |-> "", Body |-> <<>>]

\* err.Error() of a failed net.DialTimeout, Hijack or RoundTrip
DialErrors == {"i/o timeout", "connection refused", "no such host"}
HijackErrors == {"hijack failed"}
RoundTripErrors == {"round trip failed"}

\* responses of the origin server
OriginResponses ==
    { [StatusCode |-> 200, Header |-> NoHeader, Body |-> <<>>],
      [StatusCode |-> 201, Header |-> [k \in {"X-A"} |-> <<"1", "2">>],
       Body |-> <<"o", "k">>],
      [StatusCode |-> 301,
       Header |-> [k \in {"Location", "X-A"} |->
                      IF k = "Location" THEN <<"/next">> ELSE <<"2", "1">>],
       Body |-> <<"moved">>],
      [StatusCode |-> 503, Header |-> [k \in {"X-B"} |-> <<"1", "1">>],
       Body |-> <<"o", "o">>] }

NoResp == [StatusCode |-> 0, Header |-> NoHeader, Body |-> <<>>]

\* ------------------------------------------------------------------------
\* State
\* ------------------------------------------------------------------------
VARIABLES
    variant,    \* which main() runs: "auth" (l.221-248) or "noauth" (l.94-110)
    Cfg,        \* the configuration: [Auth, TProxy]
    pc,         \* position of the request handler
    req,        \* the request r being handled, NoReq outside the handler
    received,   \* r as it arrived, before the handler changed its headers
    w,          \* the http.ResponseWriter of the request
    trace,      \* what the handler did so far, in order
    conn,       \* destConn and clientConn: conn["dest"], conn["client"]
    task,       \* the two goroutines running transfer
    crashed,    \* the process died of a panic in a goroutine
    resp,       \* the origin's response in handleHTTP
    rt          \* the round trip of handleHTTP: [sent, bodyRead, bodyClosed]

vars == <<variant, Cfg, pc, req, received, w, trace, conn, task, crashed, resp, rt>>

ConnIds == {"dest", "client"}
TaskIds == {1, 2}

\* the bytes each peer writes into the tunnel, in this order
Stream(c) == IF c = "client" THEN <<1, 2, 3, 4, 5>> ELSE <<11, 12, 13, 14, 15>>

\* a connection that does not exist (yet)
NoConn ==
    [state |-> "none",   \* "none", "open", "closed" (Close was called)
     closes |-> 0,       \* calls of Close on the connection
     peer |-> "open",    \* the peer's end: "open" or "closed"
     wrote |-> 0,        \* bytes the peer wrote into the connection
     inbuf |-> <<>>,     \* bytes received from the peer, not read yet
     sent |-> <<>>,      \* bytes the proxy wrote to the connection
     pending |-> 0]      \* bytes of sent the peer has not taken yet

NoTask == [pc |-> "none", dst |-> "nil", src |-> "nil", buf |-> <<>>,
           deferred |-> <<>>,  \* the connections of the deferred Close calls
           closed |-> <<>>]    \* the connections the task has called Close on

NewWriter(hj) ==
    [wroteHeader |-> FALSE, status |-> 0, header |-> NoHeader,
     sentHeader |-> NoHeader, body |-> <<>>, hijacker |-> hj,
     hijacked |-> FALSE]

Init ==
    /\ variant \in {"auth", "noauth"}
    /\ Cfg \in [Auth : Credentials, TProxy : BOOLEAN]
    /\ variant = "noauth" => Cfg.Auth = <<>>
    /\ pc = "idle"
    /\ req = NoReq
    /\ received = NoReq
    /\ w = NewWriter(TRUE)
    /\ trace = <<>>
    /\ conn = [c \in ConnIds |-> NoConn]
    /\ task = [t \in TaskIds |-> NoTask]
    /\ crashed = FALSE
    /\ resp = NoResp
    /\ rt = [sent |-> <<>>, bodyRead |-> 0, bodyClosed |-> 0]

\* ------------------------------------------------------------------------
\* net/http's ResponseWriter
\* ------------------------------------------------------------------------
\* w.WriteHeader(code): the first call fixes the status and the headers
\* sent; a later call is ignored ("superfluous response.WriteHeader call")
WriteHeader(wr, code) ==
    IF wr.wroteHeader \/ wr.hijacked THEN wr
    ELSE [wr EXCEPT !.wroteHeader = TRUE, !.status = code,
                    !.sentHeader = wr.header]

\* w.Write(data): writes the 200 header first when none was written
Write(wr, data) ==
    IF wr.hijacked THEN wr
    ELSE LET h == WriteHeader(wr, 200) IN [h EXCEPT !.body = h.body \o data]

\* http.Error(w, msg, code)
HttpError(wr, msg, code) ==
    LET h1 == [wr EXCEPT !.header =
                  HeaderSet(HeaderSet(wr.header, "Content-Type",
                                      "text/plain; charset=utf-8"),
                            "X-Content-Type-Options", "nosniff")]
    IN  Write(WriteHeader(h1, code), <<msg, "\n">>)

\* ------------------------------------------------------------------------
\* The authentication gate
\* ------------------------------------------------------------------------
\* checkAuth without the comparison of the scheme
checkAuthAnyScheme(auth) ==
    LET c == SplitN2(auth) IN
    IF Len(c) # 2 THEN FALSE
    ELSE LET d == DecodeString(c[2]) IN
         IF d.err THEN FALSE
         ELSE d.out = Cfg.Auth

checkAuth(auth) ==
    LET c == SplitN2(auth) IN
    IF Len(c) # 2 \/ c[1] # BasicStr THEN FALSE
    ELSE LET d == DecodeString(c[2]) IN
         IF d.err THEN FALSE
         ELSE d.out = Cfg.Auth

\* the condition without the test that a credential is configured
AuthRejectedAlways(r) ==
    LET auth == HeaderGet(r.Header, KeyProxyAuthorization) IN
    auth = <<>> \/ ~checkAuth(auth)

\* the condition of the if at l.226-228: the request is rejected
AuthRejected(r) ==
    /\ Cfg.Auth # <<>>
    /\ LET auth == HeaderGet(r.Header, KeyProxyAuthorization) IN
       auth = <<>> \/ ~checkAuth(auth)

\* a request arrives and the server calls the handler with a fresh writer
Serve ==
    /\ ~crashed
    /\ pc = "idle"
    /\ \E r \in Requests, hj \in BOOLEAN :
        /\ req' = r
        /\ received' = r
        /\ w' = NewWriter(hj)
    /\ pc' = IF variant = "auth" THEN "auth" ELSE "route"
    /\ UNCHANGED <<variant, Cfg, trace, conn, task, crashed, resp, rt>>

\* Authorize without the return at l.231
AuthorizeFallsThrough ==
    /\ ~crashed
    /\ pc = "auth"
    /\ IF AuthRejected(req)
       THEN /\ w' = HttpError(
                      [w EXCEPT !.header =
                          HeaderSet(w.header, KeyProxyAuthenticate,
                                    "Basic realm=\"WProxy Basic Authentication\"")],
                      "Authorization required", 407)
            /\ trace' = Append(trace, "auth_rejected")
       ELSE /\ w' = w
            /\ trace' = Append(trace, "auth_passed")
    /\ pc' = "route"
    /\ UNCHANGED <<variant, Cfg, req, received, conn, task, crashed, resp, rt>>

\* l.226-233
Authorize ==
    /\ ~crashed
    /\ pc = "auth"
    /\ IF AuthRejected(req)
       THEN /\ w' = HttpError(
                      [w EXCEPT !.header =
                          HeaderSet(w.header, KeyProxyAuthenticate,
                                    "Basic realm=\"WProxy Basic Authentication\"")],
                      "Authorization required", 407)
            /\ trace' = Append(trace, "auth_rejected")
            /\ pc' = "return"
       ELSE /\ w' = w
            /\ trace' = Append(trace, "auth_passed")
            /\ pc' = "route"
    /\ UNCHANGED <<variant, Cfg, req, received, conn, task, crashed, resp, rt>>

\* Route with every request sent to handleHTTP
RouteAllHTTP ==
    /\ ~crashed
    /\ pc = "route"
    /\ pc' = "h_xff"
    /\ trace' = Append(trace, "handleHTTP")
    /\ UNCHANGED <<variant, Cfg, req, received, w, conn, task, crashed, resp, rt>>

\* l.235-239 (l.98-102 in the variant without authentication)
Route ==
    /\ ~crashed
    /\ pc = "route"
    /\ pc' = IF req.Method = "CONNECT" THEN "t_dial" ELSE "h_xff"
    /\ trace' = Append(trace, IF req.Method = "CONNECT" THEN "handleTunneling"
                              ELSE "handleHTTP")
    /\ UNCHANGED <<variant, Cfg, req, received, w, conn, task, crashed, resp, rt>>

\* the handler function returns
Return ==
    /\ ~crashed
    /\ pc = "return"
    /\ pc' = "done"
    /\ req' = NoReq
    /\ received' = NoReq
    /\ UNCHANGED <<variant, Cfg, w, trace, conn, task, crashed, resp, rt>>

\* ------------------------------------------------------------------------
\* handleTunneling
\* ------------------------------------------------------------------------
\* DialFail without the return at l.144
DialFailNoReturn ==
    /\ ~crashed
    /\ pc = "t_dial"
    /\ \E e \in DialErrors :
        /\ w' = HttpError(w, e, 503)
        /\ trace' = Append(trace, "dial_failed")
    /\ pc' = "t_status"
    /\ UNCHANGED <<variant, Cfg, req, received, conn, task, crashed, resp, rt>>

\* l.141-145: net.DialTimeout fails
DialFail ==
    /\ ~crashed
    /\ pc = "t_dial"
    /\ \E e \in DialErrors :
        /\ w' = HttpError(w, e, 503)
        /\ trace' = Append(trace, "dial_failed")
    /\ pc' = "return"
    /\ UNCHANGED <<variant, Cfg, req, received, conn, task, crashed, resp, rt>>

\* DialOk going on at l.147, without the WriteHeader of l.146
DialOkNoStatus ==
    /\ ~crashed
    /\ pc = "t_dial"
    /\ conn' = [conn EXCEPT !["dest"] = [NoConn EXCEPT !.state = "open"]]
    /\ trace' = Append(trace, "dial_ok")
    /\ pc' = "t_hijacker"
    /\ UNCHANGED <<variant, Cfg, req, received, w, task, crashed, resp, rt>>

\* l.141: net.DialTimeout succeeds, destConn is open
DialOk ==
    /\ ~crashed
    /\ pc = "t_dial"
    /\ conn' = [conn EXCEPT !["dest"] = [NoConn EXCEPT !.state = "open"]]
    /\ trace' = Append(trace, "dial_ok")
    /\ pc' = "t_status"
    /\ UNCHANGED <<variant, Cfg, req, received, w, task, crashed, resp, rt>>

\* l.146: w.WriteHeader(http.StatusOK)
TunnelWriteHeader ==
    /\ ~crashed
    /\ pc = "t_status"
    /\ w' = WriteHeader(w, 200)
    /\ trace' = Append(trace, "WriteHeader(200)")
    /\ pc' = "t_hijacker"
    /\ UNCHANGED <<variant, Cfg, req, received, conn, task, crashed, resp, rt>>

\* l.147-151: the type assertion w.(http.Hijacker)
TunnelHijacker ==
    /\ ~crashed
    /\ pc = "t_hijacker"
    /\ IF w.hijacker
       THEN /\ w' = w
            /\ trace' = trace
            /\ pc' = "t_hijack"
       ELSE /\ w' = HttpError(w, "Hijacking not supported", 500)
            /\ trace' = Append(trace, "not_hijacker")
            /\ pc' = "return"
    /\ UNCHANGED <<variant, Cfg, req, received, conn, task, crashed, resp, rt>>

\* l.152: hijacker.Hijack() succeeds; the response header written so far
\* is flushed to the client and the connection leaves the server's hands
HijackOk ==
    /\ ~crashed
    /\ pc = "t_hijack"
    /\ w' = [w EXCEPT !.hijacked = TRUE]
    /\ conn' = [conn EXCEPT !["client"] = [NoConn EXCEPT !.state = "open"]]
    /\ trace' = Append(trace, "hijack_ok")
    /\ pc' = "t_go1"
    /\ UNCHANGED <<variant, Cfg, req, received, task, crashed, resp, rt>>

\* l.152-155: hijacker.Hijack() fails: clientConn is nil, the error is
\* reported and the function goes on
HijackFail ==
    /\ ~crashed
    /\ pc = "t_hijack"
    /\ \E e \in HijackErrors : w' = HttpError(w, e, 503)
    /\ trace' = Append(trace, "hijack_failed")
    /\ pc' = "t_go1"
    /\ UNCHANGED <<variant, Cfg, req, received, conn, task, crashed, resp, rt>>

\* clientConn as the handler holds it: nil after a failed Hijack
ClientConn == IF conn["client"].state = "none" THEN "nil" ELSE "client"

\* l.156: go transfer(destConn, clientConn)
Go1 ==
    /\ ~crashed
    /\ pc = "t_go1"
    /\ task' = [task EXCEPT ![1] =
                  [NoTask EXCEPT !.pc = "defer_dst", !.dst = "dest",
                                 !.src = ClientConn]]
    /\ trace' = Append(trace, "go_transfer")
    /\ pc' = "t_go2"
    /\ UNCHANGED <<variant, Cfg, req, received, w, conn, crashed, resp, rt>>

\* l.157: go transfer(clientConn, destConn)
Go2 ==
    /\ ~crashed
    /\ pc = "t_go2"
    /\ task' = [task EXCEPT ![2] =
                  [NoTask EXCEPT !.pc = "defer_dst", !.dst = ClientConn,
                                 !.src = "dest"]]
    /\ trace' = Append(trace, "go_transfer")
    /\ pc' = "return"
    /\ UNCHANGED <<variant, Cfg, req, received, w, conn, crashed, resp, rt>>

\* ------------------------------------------------------------------------
\* transfer
\* ------------------------------------------------------------------------
\* c.Close()
CloseConn(cs, c) ==
    [cs EXCEPT ![c].state = "closed", ![c].closes = cs[c].closes + 1]

\* the deferred calls run, last registered first
RECURSIVE RunDeferred(_, _)
RunDeferred(cs, d) ==
    IF Len(d) = 0 THEN cs
    ELSE RunDeferred(CloseConn(cs, d[Len(d)]), SubSeq(d, 1, Len(d) - 1))

\* DeferDst without the registration of destination.Close()
DeferDstForgotten(t) ==
    /\ ~crashed
    /\ task[t].pc = "defer_dst"
    /\ IF task[t].dst = "nil"
       THEN /\ task' = [task EXCEPT ![t].pc = "panicked"]
            /\ crashed' = TRUE
       ELSE /\ task' = [task EXCEPT ![t].pc = "defer_src"]
            /\ crashed' = crashed
    /\ UNCHANGED <<variant, Cfg, pc, req, received, w, trace, conn, resp, rt>>

\* l.161: defer destination.Close().  On a nil interface the statement
\* panics; nothing is deferred yet, the goroutine and the process die.
DeferDst(t) ==
    /\ ~crashed
    /\ task[t].pc = "defer_dst"
    /\ IF task[t].dst = "nil"
       THEN /\ task' = [task EXCEPT ![t].pc = "panicked"]
            /\ crashed' = TRUE
       ELSE /\ task' = [task EXCEPT ![t].pc = "defer_src",
                                    ![t].deferred = <<task[t].dst>>]
            /\ crashed' = crashed
    /\ UNCHANGED <<variant, Cfg, pc, req, received, w, trace, conn, resp, rt>>

\* DeferSrc without the registration of source.Close()
DeferSrcForgotten(t) ==
    /\ ~crashed
    /\ task[t].pc = "defer_src"
    /\ IF task[t].src = "nil"
       THEN /\ task' = [task EXCEPT ![t].pc = "panicked", ![t].deferred = <<>>,
                                    ![t].closed = task[t].deferred]
            /\ conn' = RunDeferred(conn, task[t].deferred)
            /\ crashed' = TRUE
       ELSE /\ task' = [task EXCEPT ![t].pc = "read"]
            /\ conn' = conn
            /\ crashed' = crashed
    /\ UNCHANGED <<variant, Cfg, pc, req, received, w, trace, resp, rt>>

\* l.162: defer source.Close().  On a nil interface the statement panics:
\* the deferred destination.Close() runs, then the process dies.
DeferSrc(t) ==
    /\ ~crashed
    /\ task[t].pc = "defer_src"
    /\ IF task[t].src = "nil"
       THEN /\ task' = [task EXCEPT ![t].pc = "panicked", ![t].deferred = <<>>,
                                    ![t].closed = task[t].deferred]
            /\ conn' = RunDeferred(conn, task[t].deferred)
            /\ crashed' = TRUE
       ELSE /\ task' = [task EXCEPT ![t].pc = "read",
                           ![t].deferred = Append(task[t].deferred, task[t].src)]
            /\ conn' = conn
            /\ crashed' = crashed
    /\ UNCHANGED <<variant, Cfg, pc, req, received, w, trace, resp, rt>>

Min(a, b) == IF a < b THEN a ELSE b

\* l.163, io.Copy: src.Read(buf).  The call blocks while the connection is
\* open and has neither bytes nor an end of stream to deliver.  A read
\* returns at most SockBuf bytes, so that the write that follows fits the
\* send buffer as a whole.
CopyRead(t) ==
    /\ ~crashed
    /\ task[t].pc = "read"
    /\ LET s == task[t].src
           n == Min(Len(conn[s].inbuf), SockBuf) IN
       IF conn[s].state = "closed"
       THEN \* read error: use of closed network connection
            /\ task' = [task EXCEPT ![t].pc = "unwind"]
            /\ conn' = conn
       ELSE IF n > 0
       THEN /\ task' = [task EXCEPT ![t].pc = "write",
                           ![t].buf = SubSeq(conn[s].inbuf, 1, n)]
            /\ conn' = [conn EXCEPT ![s].inbuf =
                           SubSeq(conn[s].inbuf, n + 1, Len(conn[s].inbuf))]
       ELSE \* end of stream (or a reset) from the peer
            /\ conn[s].peer = "closed"
            /\ task' = [task EXCEPT ![t].pc = "unwind"]
            /\ conn' = conn
    /\ UNCHANGED <<variant, Cfg, pc, req, received, w, trace, crashed, resp, rt>>

\* a write that sends the buffer twice
WrittenTwice(buf) == buf \o buf

\* what dst.Write(buf) appends to the bytes sent
Written(buf) == buf

\* l.163, io.Copy: dst.Write(buf[0:nr]).  The call blocks while the peer
\* leaves no room in the send buffer.
CopyWrite(t) ==
    /\ ~crashed
    /\ task[t].pc = "write"
    /\ LET d == task[t].dst IN
       IF conn[d].state = "closed" \/ conn[d].peer = "closed"
       THEN \* write error: the copy ends
            /\ task' = [task EXCEPT ![t].pc = "unwind", ![t].buf = <<>>]
            /\ conn' = conn
       ELSE /\ conn[d].pending + Len(task[t].buf) <= SockBuf
            /\ task' = [task EXCEPT ![t].pc = "read", ![t].buf = <<>>]
            /\ conn' = [conn EXCEPT
                           ![d].sent = conn[d].sent \o Written(task[t].buf),
                           ![d].pending = conn[d].pending + Len(task[t].buf)]
    /\ UNCHANGED <<variant, Cfg, pc, req, received, w, trace, crashed, resp, rt>>

\* transfer returning after the first of its deferred calls only
UnwindOnce(t) ==
    /\ ~crashed
    /\ task[t].pc = "unwind"
    /\ LET d == task[t].deferred IN
       /\ Len(d) > 0
       /\ conn' = CloseConn(conn, d[Len(d)])
       /\ task' = [task EXCEPT ![t].deferred = <<>>,
                               ![t].closed = Append(task[t].closed, d[Len(d)]),
                               ![t].pc = "done"]
    /\ UNCHANGED <<variant, Cfg, pc, req, received, w, trace, crashed, resp, rt>>

\* transfer returning without a deferred Close
UnwindNoClose(t) ==
    /\ ~crashed
    /\ task[t].pc = "unwind"
    /\ task' = [task EXCEPT ![t].deferred = <<>>, ![t].pc = "done"]
    /\ UNCHANGED <<variant, Cfg, pc, req, received, w, trace, conn, crashed, resp, rt>>

\* io.Copy is over and transfer returns: the next deferred call runs, the
\* last registered first (l.162 source.Close(), then l.161
\* destination.Close())
Unwind(t) ==
    /\ ~crashed
    /\ task[t].pc = "unwind"
    /\ LET d == task[t].deferred IN
       /\ Len(d) > 0
       /\ conn' = CloseConn(conn, d[Len(d)])
       /\ task' = [task EXCEPT ![t].deferred = SubSeq(d, 1, Len(d) - 1),
                               ![t].closed = Append(task[t].closed, d[Len(d)]),
                               ![t].pc = IF Len(d) = 1 THEN "done"
                                         ELSE "unwind"]
    /\ UNCHANGED <<variant, Cfg, pc, req, received, w, trace, crashed, resp, rt>>

\* ------------------------------------------------------------------------
\* The peers of the tunnel: the client and the destination
\* ------------------------------------------------------------------------
\* the peer writes its next byte
PeerWrite(c) ==
    /\ ~crashed
    /\ conn[c].state = "open"
    /\ conn[c].peer = "open"
    /\ conn[c].wrote < MaxBytes
    /\ conn' = [conn EXCEPT
                   ![c].wrote = conn[c].wrote + 1,
                   ![c].inbuf = Append(conn[c].inbuf,
                                       Stream(c)[conn[c].wrote + 1])]
    /\ UNCHANGED <<variant, Cfg, pc, req, received, w, trace, task, crashed, resp, rt>>

\* the peer takes a byte the proxy sent
PeerRecv(c) ==
    /\ ~crashed
    /\ conn[c].peer = "open"
    /\ conn[c].pending > 0
    /\ conn' = [conn EXCEPT ![c].pending = conn[c].pending - 1]
    /\ UNCHANGED <<variant, Cfg, pc, req, received, w, trace, task, crashed, resp, rt>>

\* the peer closes its socket
PeerClose(c) ==
    /\ ~crashed
    /\ conn[c].state = "open"
    /\ conn[c].peer = "open"
    /\ conn' = [conn EXCEPT ![c].peer = "closed"]
    /\ UNCHANGED <<variant, Cfg, pc, req, received, w, trace, task, crashed, resp, rt>>

\* ------------------------------------------------------------------------
\* handleHTTP
\* ------------------------------------------------------------------------
\* the rewrite with Header.Add in the place of Header.Set
ForwardedHeaderAdded(r) ==
    IF ~Cfg.TProxy THEN r.Header
    ELSE LET sp == SplitHostPort(r.RemoteAddr) IN
         IF sp.err THEN r.Header
         ELSE LET clientIP ==
                      IF KeyXForwardedFor \in DOMAIN r.Header
                      THEN Join(r.Header[KeyXForwardedFor])
                               \o <<COMMA, SP>> \o sp.host
                      ELSE sp.host
              IN  HeaderAdd(r.Header, KeyXForwardedFor, clientIP)

\* the rewrite done whatever the -tproxy flag says
ForwardedHeaderAlways(r) ==
    LET sp == SplitHostPort(r.RemoteAddr) IN
    IF sp.err THEN r.Header
    ELSE LET clientIP ==
                 IF KeyXForwardedFor \in DOMAIN r.Header
                 THEN Join(r.Header[KeyXForwardedFor])
                          \o <<COMMA, SP>> \o sp.host
                 ELSE sp.host
         IN  HeaderSet(r.Header, KeyXForwardedFor, clientIP)

\* l.171-178: the X-Forwarded-For header of the outbound request
ForwardedHeader(r) ==
    IF ~Cfg.TProxy THEN r.Header
    ELSE LET sp == SplitHostPort(r.RemoteAddr) IN
         IF sp.err THEN r.Header
         ELSE LET clientIP ==
                      IF KeyXForwardedFor \in DOMAIN r.Header
                      THEN Join(r.Header[KeyXForwardedFor])
                               \o <<COMMA, SP>> \o sp.host
                      ELSE sp.host
              IN  HeaderSet(r.Header, KeyXForwardedFor, clientIP)

\* l.171-178
Forwarded ==
    /\ ~crashed
    /\ pc = "h_xff"
    /\ req' = [req EXCEPT !.Header = ForwardedHeader(req)]
    /\ received' = received
    /\ pc' = "h_roundtrip"
    /\ UNCHANGED <<variant, Cfg, w, trace, conn, task, crashed, resp, rt>>

\* RoundTripFail without the return at l.183
RoundTripFailNoReturn ==
    /\ ~crashed
    /\ pc = "h_roundtrip"
    /\ rt' = [rt EXCEPT !.sent = Append(rt.sent, req)]
    /\ \E e \in RoundTripErrors : w' = HttpError(w, e, 503)
    /\ trace' = Append(trace, "roundtrip_failed")
    /\ pc' = "h_header"
    /\ UNCHANGED <<variant, Cfg, req, received, conn, task, crashed, resp>>

\* l.180-184: http.DefaultTransport.RoundTrip(req) fails
RoundTripFail ==
    /\ ~crashed
    /\ pc = "h_roundtrip"
    /\ rt' = [rt EXCEPT !.sent = Append(rt.sent, req)]
    /\ \E e \in RoundTripErrors : w' = HttpError(w, e, 503)
    /\ trace' = Append(trace, "roundtrip_failed")
    /\ pc' = "return"
    /\ UNCHANGED <<variant, Cfg, req, received, conn, task, crashed, resp>>

\* RoundTripOk going on at l.187, the status written before the headers
\* are copied
RoundTripOkStatusFirst ==
    /\ ~crashed
    /\ pc = "h_roundtrip"
    /\ rt' = [rt EXCEPT !.sent = Append(rt.sent, req)]
    /\ resp' \in OriginResponses
    /\ trace' = Append(trace, "roundtrip_ok")
    /\ pc' = "h_status"
    /\ UNCHANGED <<variant, Cfg, req, received, w, conn, task, crashed>>

\* l.180: the round trip succeeds with a response of the origin
RoundTripOk ==
    /\ ~crashed
    /\ pc = "h_roundtrip"
    /\ rt' = [rt EXCEPT !.sent = Append(rt.sent, req)]
    /\ resp' \in OriginResponses
    /\ trace' = Append(trace, "roundtrip_ok")
    /\ pc' = "h_header"
    /\ UNCHANGED <<variant, Cfg, req, received, w, conn, task, crashed>>

\* the keys of a header map in some order of iteration
RECURSIVE KeyOrders(_)
KeyOrders(ks) ==
    IF ks = {} THEN {<<>>}
    ELSE UNION { { <<k>> \o o : o \in KeyOrders(ks \ {k}) } : k \in ks }

RECURSIVE AddValues(_, _, _)
AddValues(dst, k, vv) ==
    IF Len(vv) = 0 THEN dst
    ELSE AddValues(HeaderAdd(dst, k, Head(vv)), k, Tail(vv))

\* copyHeader with Header.Set in the place of Header.Add
RECURSIVE copyHeaderSet(_, _, _)
copyHeaderSet(dst, src, ks) ==
    IF Len(ks) = 0 THEN dst
    ELSE copyHeaderSet(
             HeaderSet(dst, Head(ks), src[Head(ks)][Len(src[Head(ks)])]),
             src, Tail(ks))

\* l.191-197: copyHeader, visiting the keys of src in the order ks
RECURSIVE copyHeader(_, _, _)
copyHeader(dst, src, ks) ==
    IF Len(ks) = 0 THEN dst
    ELSE copyHeader(AddValues(dst, Head(ks), src[Head(ks)]), src, Tail(ks))

\* l.186: copyHeader(w.Header(), resp.Header)
CopyHeader ==
    /\ ~crashed
    /\ pc = "h_header"
    /\ \E ks \in KeyOrders(DOMAIN resp.Header) :
        w' = [w EXCEPT !.header = copyHeader(w.header, resp.Header, ks)]
    /\ trace' = Append(trace, "copyHeader")
    /\ pc' = "h_status"
    /\ UNCHANGED <<variant, Cfg, req, received, conn, task, crashed, resp, rt>>

\* l.187: w.WriteHeader(resp.StatusCode)
HTTPWriteHeader ==
    /\ ~crashed
    /\ pc = "h_status"
    /\ w' = WriteHeader(w, resp.StatusCode)
    /\ trace' = Append(trace, "WriteHeader(status)")
    /\ pc' = "h_body"
    /\ UNCHANGED <<variant, Cfg, req, received, conn, task, crashed, resp, rt>>

\* l.188, io.Copy(w, resp.Body): the next piece of the body is read and
\* written to the client
CopyBody ==
    /\ ~crashed
    /\ pc = "h_body"
    /\ rt.bodyRead < Len(resp.Body)
    /\ rt' = [rt EXCEPT !.bodyRead = rt.bodyRead + 1]
    /\ w' = Write(w, <<resp.Body[rt.bodyRead + 1]>>)
    /\ trace' = IF rt.bodyRead = 0 THEN Append(trace, "body") ELSE trace
    /\ UNCHANGED <<variant, Cfg, pc, req, received, conn, task, crashed, resp>>

\* l.188: io.Copy ends, at the end of the body
CopyBodyEOF ==
    /\ ~crashed
    /\ pc = "h_body"
    /\ rt.bodyRead = Len(resp.Body)
    /\ pc' = "h_close"
    /\ UNCHANGED <<variant, Cfg, req, received, w, trace, conn, task, crashed, resp, rt>>

\* CopyBodyFail leaving the handler without the deferred Close
CopyBodyFailNoClose ==
    /\ ~crashed
    /\ pc = "h_body"
    /\ rt.bodyRead < Len(resp.Body)
    /\ rt' = [rt EXCEPT !.bodyRead = rt.bodyRead + 1]
    /\ trace' = Append(trace, "client_write_failed")
    /\ pc' = "return"
    /\ UNCHANGED <<variant, Cfg, req, received, w, conn, task, crashed, resp>>

\* l.188: io.Copy ends, a piece was read but the write to the client failed
CopyBodyFail ==
    /\ ~crashed
    /\ pc = "h_body"
    /\ rt.bodyRead < Len(resp.Body)
    /\ rt' = [rt EXCEPT !.bodyRead = rt.bodyRead + 1]
    /\ trace' = Append(trace, "client_write_failed")
    /\ pc' = "h_close"
    /\ UNCHANGED <<variant, Cfg, req, received, w, conn, task, crashed, resp>>

\* l.185 deferred: resp.Body.Close()
CloseBody ==
    /\ ~crashed
    /\ pc = "h_close"
    /\ rt' = [rt EXCEPT !.bodyClosed = rt.bodyClosed + 1]
    /\ pc' = "return"
    /\ UNCHANGED <<variant, Cfg, req, received, w, trace, conn, task, crashed, resp>>

\* ------------------------------------------------------------------------
\* The program
\* ------------------------------------------------------------------------
Next ==
    \/ Serve
    \/ Authorize
    \/ Route
    \/ Return
    \/ DialFail
    \/ DialOk
    \/ TunnelWriteHeader
    \/ TunnelHijacker
    \/ HijackOk
    \/ HijackFail
    \/ Go1
    \/ Go2
    \/ \E t \in TaskIds : DeferDst(t)
    \/ \E t \in TaskIds : DeferSrc(t)
    \/ \E t \in TaskIds : CopyRead(t)
    \/ \E t \in TaskIds : CopyWrite(t)
    \/ \E t \in TaskIds : Unwind(t)
    \/ \E c \in ConnIds : PeerWrite(c)
    \/ \E c \in ConnIds : PeerRecv(c)
    \/ \E c \in ConnIds : PeerClose(c)
    \/ Forwarded
    \/ RoundTripFail
    \/ RoundTripOk
    \/ CopyHeader
    \/ HTTPWriteHeader
    \/ CopyBody
    \/ CopyBodyEOF
    \/ CopyBodyFail
    \/ CloseBody

Spec == Init /\ [][Next]_vars

\* ------------------------------------------------------------------------
\* handleTunneling on its own, with the scheduling of the goroutines
\* ------------------------------------------------------------------------
\* the handler of the variant without authentication enters handleTunneling
\* for a CONNECT request (l.98-99)
TunnelInit ==
    /\ variant = "noauth"
    /\ Cfg = [Auth |-> <<>>, TProxy |-> FALSE]
    /\ pc = "t_dial"
    /\ req = [Method |-> "CONNECT", Header |-> NoHeader,
              RemoteAddr |-> <<66, COLON, 49>>, Target |-> TargetOf("CONNECT"),
              Body |-> BodyOf("CONNECT")]
    /\ received = req
    /\ w \in {NewWriter(TRUE), NewWriter(FALSE)}
    /\ trace = <<"handleTunneling">>
    /\ conn = [c \in ConnIds |-> NoConn]
    /\ task = [t \in TaskIds |-> NoTask]
    /\ crashed = FALSE
    /\ resp = NoResp
    /\ rt = [sent |-> <<>>, bodyRead |-> 0, bodyClosed |-> 0]

\* a step of the goroutine that runs the handler
HandlerStep ==
    \/ DialFail
    \/ DialOk
    \/ TunnelWriteHeader
    \/ TunnelHijacker
    \/ HijackOk
    \/ HijackFail
    \/ Go1
    \/ Go2
    \/ Return

\* a step of the goroutine that runs the transfer t
TaskStep(t) ==
    \/ DeferDst(t)
    \/ DeferSrc(t)
    \/ CopyRead(t)
    \/ CopyWrite(t)
    \/ Unwind(t)

\* a step of a peer
PeerStep ==
    \/ \E c \in ConnIds : PeerWrite(c)
    \/ \E c \in ConnIds : PeerRecv(c)
    \/ \E c \in ConnIds : PeerClose(c)

TunnelNext ==
    \/ HandlerStep
    \/ \E t \in TaskIds : TaskStep(t)
    \/ PeerStep

\* the Go scheduler runs every goroutine that can run; nothing makes a
\* peer write, read or close
TunnelFair ==
    /\ TunnelInit
    /\ [][TunnelNext]_vars
    /\ WF_vars(HandlerStep)
    /\ \A t \in TaskIds : WF_vars(TaskStep(t))

\* ------------------------------------------------------------------------
\* Properties
\* ------------------------------------------------------------------------
InTrace(e) == \E i \in DOMAIN trace : trace[i] = e

\* every occurrence of e2 in the trace has an occurrence of e1 before it
Precedes(e1, e2) ==
    \A i \in DOMAIN trace :
        trace[i] = e2 => \E j \in 1..(i - 1) : trace[j] = e1

Count(e) == Cardinality({i \in DOMAIN trace : trace[i] = e})

\* no destination was dialed, no client connection hijacked, no request
\* sent to an origin, no relay started
NothingForwarded ==
    /\ conn["dest"].state = "none"
    /\ conn["client"].state = "none"
    /\ ~w.hijacked
    /\ rt.sent = <<>>
    /\ \A t \in TaskIds : task[t].pc = "none"
    /\ ~InTrace("dial_ok") /\ ~InTrace("dial_failed")
    /\ ~InTrace("hijack_ok") /\ ~InTrace("hijack_failed")
    /\ ~InTrace("roundtrip_ok") /\ ~InTrace("roundtrip_failed")

Challenge == <<"Basic realm=\"WProxy Basic Authentication\"">>

\* C1: with a credential configured, a request that fails the check is
\* answered 407 with a Proxy-Authenticate challenge naming a realm and causes
\* no dial, hijack or round trip, whatever its method; and whenever a dial or
\* a round trip has happened the authentication decision came first.
C1_RejectedIsNeverForwarded ==
    /\ InTrace("auth_rejected") =>
        /\ variant = "auth" /\ Cfg.Auth # <<>>
        /\ w.status = 407
        /\ KeyProxyAuthenticate \in DOMAIN w.sentHeader
        /\ w.sentHeader[KeyProxyAuthenticate] = Challenge
        /\ NothingForwarded
    /\ variant = "auth" =>
        /\ Precedes("auth_passed", "dial_ok")
        /\ Precedes("auth_passed", "dial_failed")
        /\ Precedes("auth_passed", "roundtrip_ok")
        /\ Precedes("auth_passed", "roundtrip_failed")
        /\ Precedes("auth_passed", "hijack_ok")

\* a CONNECT request was rejected by the gate
C1_Witness ==
    /\ InTrace("auth_rejected")
    /\ received.Method = "CONNECT"
    /\ pc = "return"
    /\ w.status = 407

\* base64.StdEncoding.EncodeToString, for the credentials tried
B64Char(v) ==
    IF v < 26 THEN 65 + v
    ELSE IF v < 52 THEN 97 + (v - 26)
    ELSE IF v < 62 THEN 48 + (v - 52)
    ELSE IF v = 62 THEN 43
    ELSE 47

RECURSIVE B64Encode(_)
B64Encode(b) ==
    IF Len(b) = 0 THEN <<>>
    ELSE IF Len(b) = 1
    THEN <<B64Char(b[1] \div 4), B64Char((b[1] % 4) * 16), EQUALS, EQUALS>>
    ELSE IF Len(b) = 2
    THEN <<B64Char(b[1] \div 4),
           B64Char((b[1] % 4) * 16 + (b[2] \div 16)),
           B64Char((b[2] % 16) * 4), EQUALS>>
    ELSE <<B64Char(b[1] \div 4),
           B64Char((b[1] % 4) * 16 + (b[2] \div 16)),
           B64Char((b[2] % 16) * 4 + (b[3] \div 64)),
           B64Char(b[3] % 64)>> \o B64Encode(SubSeq(b, 4, Len(b)))

\* the header value is "Basic", one space, and a valid base64 payload that
\* decodes to the credential
WellFormedFor(h, cred) ==
    /\ Len(h) >= 6
    /\ SubSeq(h, 1, 5) = BasicStr
    /\ h[6] = SP
    /\ LET d == DecodeString(SubSeq(h, 7, Len(h))) IN
       ~d.err /\ d.out = cred

\* the Proxy-Authorization header of the request as it arrived is accepted
Acceptable ==
    /\ KeyProxyAuthorization \in DOMAIN received.Header
    /\ WellFormedFor(received.Header[KeyProxyAuthorization][1], Cfg.Auth)

\* the gate has decided on the request being handled
Decided == received # NoReq /\ pc \notin {"idle", "auth"}

\* C2: with a credential configured, a request passes the gate if and only
\* if its Proxy-Authorization header is "Basic", one space and a valid base64
\* payload decoding to the credential; every other header (absent, empty,
\* other scheme or letter case, malformed base64, other payload) yields 407;
\* the accepted request goes on to the tunnel or to the HTTP forwarder.
C2_AcceptedIffBasicCredential ==
    (variant = "auth" /\ Cfg.Auth # <<>> /\ Decided) =>
        /\ InTrace("auth_passed") <=> Acceptable
        /\ InTrace("auth_rejected") <=> ~Acceptable
        /\ ~Acceptable => w.status = 407 /\ pc = "return"
        /\ Acceptable =>
            /\ w.status # 407
            /\ pc # "route" =>
                IF received.Method = "CONNECT"
                THEN trace[2] = "handleTunneling"
                ELSE trace[2] = "handleHTTP"
        /\ (/\ KeyProxyAuthorization \in DOMAIN received.Header
            /\ received.Header[KeyProxyAuthorization][1]
                   = BasicStr \o <<SP>> \o B64Encode(Cfg.Auth))
            => InTrace("auth_passed")

\* "Basic YTpiYw==" was accepted for the credential "a:bc" and forwarded
C2_Witness ==
    /\ variant = "auth" /\ Cfg.Auth = CredABC
    /\ Decided
    /\ KeyProxyAuthorization \in DOMAIN received.Header
    /\ received.Header[KeyProxyAuthorization][1] = BasicStr \o <<SP>> \o PayABC
    /\ InTrace("roundtrip_ok")

\* C3: without a credential the gate always passes: no request is answered
\* 407 whatever its Proxy-Authorization header (present or not), and every
\* request reaches the tunnel relay or the HTTP forwarder.
C3_NoCredentialNoGate ==
    Cfg.Auth = <<>> =>
        /\ ~InTrace("auth_rejected")
        /\ w.status # 407
        /\ KeyProxyAuthenticate \notin DOMAIN w.sentHeader
        /\ (received # NoReq /\ pc \notin {"idle", "auth", "route"}) =>
            IF received.Method = "CONNECT"
            THEN InTrace("handleTunneling") /\ ~InTrace("handleHTTP")
            ELSE InTrace("handleHTTP") /\ ~InTrace("handleTunneling")

\* a request with a malformed header went through the gate of the variant
\* with authentication, no credential being configured
C3_Witness ==
    /\ variant = "auth" /\ Cfg.Auth = <<>>
    /\ KeyProxyAuthorization \in DOMAIN received.Header
    /\ received.Header[KeyProxyAuthorization][1] = PayAB
    /\ InTrace("handleTunneling")
    /\ InTrace("dial_ok")

\* some byte went through the relay, or is on its way
RelayStarted ==
    \/ \E t \in TaskIds : task[t].pc # "none"
    \/ \E c \in ConnIds : conn[c].sent # <<>>

\* C4: for a CONNECT request the 200 is written strictly after the dial
\* succeeded and strictly before the client connection is hijacked, a relay
\* task is started or a relay byte is copied; no 200 follows a failed dial.
C4_OkBetweenDialAndRelay ==
    /\ Precedes("dial_ok", "WriteHeader(200)")
    /\ Precedes("WriteHeader(200)", "hijack_ok")
    /\ Precedes("WriteHeader(200)", "go_transfer")
    /\ InTrace("WriteHeader(200)") => w.wroteHeader /\ w.status = 200
    /\ (w.hijacked \/ conn["client"].state # "none" \/ RelayStarted) =>
        /\ InTrace("dial_ok")
        /\ w.wroteHeader /\ w.status = 200
    /\ InTrace("dial_failed") =>
        /\ ~InTrace("WriteHeader(200)")
        /\ w.status # 200

\* bytes were relayed in a tunnel
C4_Witness ==
    /\ InTrace("hijack_ok")
    /\ conn["dest"].sent # <<>>
    /\ conn["client"].sent # <<>>
    /\ w.status = 200

\* C5: when the dial of a CONNECT request fails the client receives 503 with
\* the error text as body, the dial was attempted once, the client connection
\* is not hijacked and no relay task is started.
C5_DialFailureIs503 ==
    InTrace("dial_failed") =>
        /\ w.wroteHeader /\ w.status = 503
        /\ \E e \in DialErrors : w.body = <<e, "\n">>
        /\ Count("dial_failed") + Count("dial_ok") = 1
        /\ conn["dest"].state = "none"
        /\ conn["client"].state = "none"
        /\ ~w.hijacked
        /\ ~InTrace("hijack_ok") /\ ~InTrace("hijack_failed")
        /\ ~InTrace("go_transfer")
        /\ \A t \in TaskIds : task[t].pc = "none"
        /\ pc \in {"return", "done"}

C5_Witness ==
    /\ InTrace("dial_failed")
    /\ pc = "done"
    /\ w.status = 503

\* C6: a CONNECT request whose dial succeeded and whose response writer is
\* not an http.Hijacker is answered with the status 500 and aborted without
\* a relay task.
C6_NotHijackerIs500 ==
    InTrace("not_hijacker") =>
        /\ w.status = 500
        /\ \A t \in TaskIds : task[t].pc = "none"

\* the tunnel was established and both relay tasks have ended
TunnelEnded ==
    /\ conn["client"].state # "none"
    /\ \A t \in TaskIds : task[t].pc = "done"

\* C7 as stated: once the tunnel has ended, Close was called exactly once
\* on the hijacked client connection and on the dialed destination
\* connection.
C7_ClosedExactlyOnce ==
    TunnelEnded => \A c \in ConnIds : conn[c].closes = 1

\* C7 as amended: in an established tunnel Close is called on each of the
\* two connections once by each relay task that has ended, never more than
\* twice, and exactly twice once both tasks have ended; the connection is
\* closed from the first call on.
C7_ClosedByEachTask ==
    conn["client"].state # "none" =>
        \A c \in ConnIds :
            /\ conn[c].closes <= 2
            /\ conn[c].closes
                   >= Cardinality({t \in TaskIds : task[t].pc = "done"})
            /\ conn[c].closes > 0 <=> conn[c].state = "closed"
            /\ TunnelEnded => conn[c].closes = 2

C7_Witness ==
    /\ TunnelEnded
    /\ \A c \in ConnIds : conn[c].closes = 2 /\ conn[c].state = "closed"

IsPrefix(s, t) == Len(s) <= Len(t) /\ s = SubSeq(t, 1, Len(s))

\* the bytes the peer of c wrote into the tunnel so far
PeerWrote(c) == SubSeq(Stream(c), 1, conn[c].wrote)

\* C9: at every moment the bytes delivered to the destination are a prefix
\* of the bytes the client wrote after the 200, and the bytes delivered to
\* the client a prefix of the bytes the destination wrote: nothing is
\* duplicated, reordered, altered or injected.
C9_RelayedIsPrefix ==
    /\ IsPrefix(conn["dest"].sent, PeerWrote("client"))
    /\ IsPrefix(conn["client"].sent, PeerWrote("dest"))
    /\ \A t \in TaskIds :
        task[t].buf # <<>> =>
            IsPrefix(conn[task[t].dst].sent \o task[t].buf,
                     PeerWrote(task[t].src))

\* a tunnel that ended having carried all of the client's bytes one way
\* and no byte the other way
C9_Witness ==
    /\ TunnelEnded
    /\ conn["dest"].sent = SubSeq(Stream("client"), 1, MaxBytes)
    /\ conn["client"].sent = <<>>

\* the IP of the remote addresses that have one: "B" and "::1"
RemoteIP(a) ==
    IF a = <<66, COLON, 49>> THEN <<66>>
    ELSE IF a = <<LBRACKET, COLON, COLON, 49, RBRACKET, COLON, 49>>
    THEN <<COLON, COLON, 49>>
    ELSE <<>>

\* the values of a chain, each followed by ", "
RECURSIVE ChainPrefix(_)
ChainPrefix(v) ==
    IF Len(v) = 0 THEN <<>>
    ELSE ChainPrefix(SubSeq(v, 1, Len(v) - 1)) \o v[Len(v)] \o <<COMMA, SP>>

\* C10: in transparent-proxy mode the request sent to the origin for a
\* plain HTTP request from the remote IP B carries exactly one
\* X-Forwarded-For value: the inbound values joined by ", " in their order
\* followed by ", B" when the inbound request has the header, "B" otherwise.
C10_ForwardedForChain ==
    (/\ Cfg.TProxy
     /\ rt.sent # <<>>
     /\ received # NoReq
     /\ RemoteIP(received.RemoteAddr) # <<>>) =>
        /\ KeyXForwardedFor \in DOMAIN rt.sent[1].Header
        /\ rt.sent[1].Header[KeyXForwardedFor] =
              IF KeyXForwardedFor \in DOMAIN received.Header
              THEN <<ChainPrefix(received.Header[KeyXForwardedFor])
                       \o RemoteIP(received.RemoteAddr)>>
              ELSE <<RemoteIP(received.RemoteAddr)>>

\* inbound "A" and "C" from "B:1" went out as "A, C, B"
C10_Witness ==
    /\ Cfg.TProxy
    /\ rt.sent # <<>>
    /\ received # NoReq
    /\ KeyXForwardedFor \in DOMAIN received.Header
    /\ received.Header[KeyXForwardedFor] = <<IpA, IpC>>
    /\ rt.sent[1].Header[KeyXForwardedFor]
           = << <<65, COMMA, SP, 67, COMMA, SP, 66>> >>

\* a relay task is blocked in a write: the peer is there and leaves no room
WriteStalled ==
    \E t \in TaskIds :
        /\ task[t].pc = "write"
        /\ conn[task[t].dst].state = "open"
        /\ conn[task[t].dst].peer = "open"
        /\ conn[task[t].dst].pending + Len(task[t].buf) > SockBuf

ClientGone == conn["client"].state # "none" /\ conn["client"].peer = "closed"

DestGone == conn["client"].state # "none" /\ conn["dest"].peer = "closed"

\* C8 as stated: in an established tunnel, once the client has closed its
\* socket the proxy eventually closes the destination socket, and once the
\* destination has closed its socket the proxy eventually closes the client
\* socket, the relay tasks being scheduled fairly.
C8_PeerCloseClosesOther ==
    /\ ClientGone ~> (conn["dest"].state = "closed")
    /\ DestGone ~> (conn["client"].state = "closed")

\* C8 as amended: the same, unless a relay task stays blocked for ever in a
\* write to a peer that takes no more bytes.
C8_PeerCloseClosesOtherUnlessStalled ==
    \/ <>[]WriteStalled
    \/ /\ ClientGone ~> (conn["dest"].state = "closed")
       /\ DestGone ~> (conn["client"].state = "closed")

\* the client closed its socket and the proxy closed the destination's
C8_Witness ==
    /\ ClientGone
    /\ conn["dest"].peer = "open"
    /\ conn["dest"].state = "closed"
    /\ \A t \in TaskIds : task[t].pc = "done"

\* C11: when the round trip of a plain HTTP request succeeded the client
\* gets the origin's status code unchanged (a 3xx included), every header
\* key of the origin with all its values in the origin's order, and, the
\* copy having reached the end of the body, a body equal to the origin's.
C11_ResponseRelayedUnchanged ==
    InTrace("WriteHeader(status)") =>
        /\ InTrace("roundtrip_ok")
        /\ w.wroteHeader /\ w.status = resp.StatusCode
        /\ \A k \in DOMAIN resp.Header :
            /\ k \in DOMAIN w.sentHeader
            /\ w.sentHeader[k] = resp.Header[k]
        /\ IsPrefix(w.body, resp.Body)
        /\ (pc \in {"return", "done"} /\ ~InTrace("client_write_failed"))
            => w.body = resp.Body

\* the origin answered 201 with X-A: 1, X-A: 2 and the body "ok"
C11_Witness ==
    /\ pc = "done"
    /\ resp.StatusCode = 201
    /\ w.status = 201
    /\ w.sentHeader = [k \in {"X-A"} |-> <<"1", "2">>]
    /\ w.body = <<"o", "k">>

\* C12: when the round trip of a plain HTTP request fails the client gets
\* 503 with the error text as body, the round trip was attempted once, and
\* nothing of an origin response is written to the client.
C12_RoundTripFailureIs503 ==
    InTrace("roundtrip_failed") =>
        /\ w.wroteHeader /\ w.status = 503
        /\ \E e \in RoundTripErrors : w.body = <<e, "\n">>
        /\ Len(rt.sent) = 1
        /\ Count("roundtrip_failed") + Count("roundtrip_ok") = 1
        /\ resp = NoResp
        /\ ~InTrace("copyHeader")
        /\ ~InTrace("WriteHeader(status)")
        /\ ~InTrace("body")
        /\ DOMAIN w.sentHeader = {"Content-Type", "X-Content-Type-Options"}
        /\ pc \in {"return", "done"}

C12_Witness ==
    /\ InTrace("roundtrip_failed")
    /\ pc = "done"
    /\ w.status = 503
    /\ Len(rt.sent) = 1

\* C13: a request that passed the gate is handled by one strategy, chosen by
\* its method: CONNECT by the tunnel relay, without any round trip to an
\* origin; every other method by the HTTP forwarder, without any dial of a
\* destination or hijack of the client connection.
C13_OneStrategyByMethod ==
    /\ Count("handleTunneling") + Count("handleHTTP") <= 1
    /\ (received # NoReq /\ pc \notin {"idle", "auth", "route"}
            /\ ~InTrace("auth_rejected")) =>
        IF received.Method = "CONNECT"
        THEN InTrace("handleTunneling")
        ELSE InTrace("handleHTTP")
    /\ InTrace("handleTunneling") =>
        /\ rt.sent = <<>>
        /\ resp = NoResp
        /\ ~InTrace("roundtrip_ok") /\ ~InTrace("roundtrip_failed")
        /\ pc \notin {"h_xff", "h_roundtrip", "h_header", "h_status",
                      "h_body", "h_close"}
    /\ InTrace("handleHTTP") =>
        /\ conn["dest"].state = "none"
        /\ conn["client"].state = "none"
        /\ ~w.hijacked
        /\ \A t \in TaskIds : task[t].pc = "none"
        /\ ~InTrace("dial_ok") /\ ~InTrace("dial_failed")
        /\ ~InTrace("hijack_ok") /\ ~InTrace("hijack_failed")
        /\ pc \notin {"t_dial", "t_status", "t_hijacker", "t_hijack",
                      "t_go1", "t_go2"}

\* a POST that passed the gate with a credential went to the origin
C13_Witness ==
    /\ variant = "auth" /\ Cfg.Auth = CredAB
    /\ received.Method = "POST"
    /\ InTrace("auth_passed")
    /\ InTrace("handleHTTP")
    /\ InTrace("roundtrip_ok")

\* C14: relay tasks exist only for established tunnels: two of them, one
\* per direction, once the dial and the hijack succeeded and the handler
\* has gone through its go statements, and none when the dial failed, the
\* writer cannot be hijacked or Hijack returned an error.
C14_RelayOnlyWhenEstablished ==
    /\ (\E t \in TaskIds : task[t].pc # "none") =>
        /\ InTrace("dial_ok")
        /\ InTrace("hijack_ok")
    /\ InTrace("go_transfer") => InTrace("hijack_ok")
    /\ InTrace("hijack_failed") =>
        /\ \A t \in TaskIds : task[t].pc = "none"
        /\ ~crashed
    /\ (InTrace("hijack_ok") /\ pc \in {"return", "done"}) =>
        /\ Count("go_transfer") = 2
        /\ task[1].dst = "dest" /\ task[1].src = "client"
        /\ task[2].dst = "client" /\ task[2].src = "dest"

\* a relay task that has ended
Ended(t) == task[t].pc = "done"

\* C15: a relay task whose copy is over, by end of stream or by a failed
\* read or write, has called Close on the connection it read from and on
\* the connection it wrote to when it ends, in both directions.
C15_EndedTaskClosedBoth ==
    \A t \in TaskIds :
        /\ Ended(t) =>
            /\ Len(task[t].closed) = 2
            /\ {task[t].closed[i] : i \in 1..2} = {task[t].src, task[t].dst}
            /\ task[t].src # task[t].dst
            /\ conn[task[t].src].state = "closed"
            /\ conn[task[t].dst].state = "closed"
            /\ task[t].deferred = <<>>
        /\ task[t].pc \in {"read", "write"} => task[t].closed = <<>>

\* both directions ended, one by the client's end of stream, after bytes
\* went through
C15_Witness ==
    /\ \A t \in TaskIds : Ended(t)
    /\ task[1].closed = <<"client", "dest">>
    /\ task[2].closed = <<"dest", "client">>
    /\ conn["client"].peer = "closed"
    /\ conn["dest"].peer = "open"
    /\ conn["dest"].sent # <<>>

\* C16: in an established tunnel, once one relay task has ended the read
\* or write the other task is in or comes to fails, the other task ends as
\* well, whatever the peers and the handler do, and nothing more is written
\* to the response of the CONNECT request once the connection is hijacked.
C16_OtherDirectionEnds ==
    /\ (\E t \in TaskIds : Ended(t)) ~> (\A t \in TaskIds : Ended(t))
    /\ [][\A t, u \in TaskIds :
            (/\ Ended(t)
             /\ task[u].pc \in {"read", "write"}
             /\ task'[u].pc # task[u].pc) => task'[u].pc = "unwind"]_vars
    /\ [][w.hijacked => w' = w]_vars

\* the destination-to-client task ended first, on the destination's end of
\* stream, and the task reading from the open, silent client ended too
C16_Witness ==
    /\ \A t \in TaskIds : Ended(t)
    /\ conn["client"].peer = "open"
    /\ conn["client"].wrote = 0
    /\ conn["dest"].peer = "closed"
    /\ w.hijacked /\ w.status = 200 /\ w.body = <<>>

\* C17: when the round trip of a plain HTTP request succeeded the body of
\* the origin response is closed exactly once by the time the handler
\* returns, whether the copy reached the end of the body or the write to
\* the client failed; when the round trip failed nothing is closed.
C17_BodyClosedOnce ==
    /\ rt.bodyClosed <= 1
    /\ rt.bodyClosed = 1 => InTrace("roundtrip_ok")
    /\ (InTrace("roundtrip_ok") /\ pc \in {"return", "done"})
        => rt.bodyClosed = 1
    /\ (InTrace("roundtrip_ok") /\ pc \in {"h_header", "h_status", "h_body"})
        => rt.bodyClosed = 0
    /\ InTrace("roundtrip_failed") => rt.bodyClosed = 0

\* the write to the client failed part-way and the body was closed
C17_Witness ==
    /\ InTrace("client_write_failed")
    /\ rt.bodyRead < Len(resp.Body)
    /\ pc = "done"
    /\ rt.bodyClosed = 1

\* C18: after a successful round trip the HTTP forwarder copies all origin
\* headers into the client response before it writes the status code, and
\* writes the status code before it streams the first piece of the body.
C18_HeadersStatusBody ==
    /\ Precedes("roundtrip_ok", "copyHeader")
    /\ Precedes("copyHeader", "WriteHeader(status)")
    /\ Precedes("WriteHeader(status)", "body")
    /\ Precedes("WriteHeader(status)", "client_write_failed")
    /\ InTrace("WriteHeader(status)") =>
        \A k \in DOMAIN resp.Header : k \in DOMAIN w.sentHeader
    /\ (InTrace("handleHTTP") /\ w.body # <<>>
            /\ ~InTrace("roundtrip_failed")) =>
        /\ InTrace("WriteHeader(status)")
        /\ w.wroteHeader
    /\ (InTrace("roundtrip_ok") /\ ~InTrace("WriteHeader(status)")) =>
        ~w.wroteHeader /\ w.body = <<>>

\* headers, status and the first piece of the body of the 301 were written
C18_Witness ==
    /\ trace = <<"auth_passed", "handleHTTP", "roundtrip_ok", "copyHeader",
                 "WriteHeader(status)", "body">>
    /\ resp.StatusCode = 301
    /\ w.status = 301
    /\ "Location" \in DOMAIN w.sentHeader
    /\ w.body = <<"moved">>

\* C19: the request sent to the origin has the X-Forwarded-For header as
\* received (absent or with the same values) when transparent-proxy mode is
\* off, and when it is on and the remote address does not split into host
\* and port; every other header, the method, the target and the body are
\* as received in either mode.
C19_RequestOtherwiseUnchanged ==
    (rt.sent # <<>> /\ received # NoReq) =>
        /\ Len(rt.sent) = 1
        /\ rt.sent[1].Method = received.Method
        /\ rt.sent[1].Target = received.Target
        /\ rt.sent[1].Body = received.Body
        /\ rt.sent[1].RemoteAddr = received.RemoteAddr
        /\ \A k \in (DOMAIN rt.sent[1].Header \cup DOMAIN received.Header)
                    \ {KeyXForwardedFor} :
            /\ k \in DOMAIN rt.sent[1].Header
            /\ k \in DOMAIN received.Header
            /\ rt.sent[1].Header[k] = received.Header[k]
        /\ (~Cfg.TProxy \/ RemoteIP(received.RemoteAddr) = <<>>) =>
            rt.sent[1].Header = received.Header

\* transparent-proxy mode is on, the remote address is "B:B:1", and the
\* inbound X-Forwarded-For went out as it came
C19_Witness ==
    /\ Cfg.TProxy
    /\ rt.sent # <<>>
    /\ received.RemoteAddr = <<66, COLON, 66, COLON, 49>>
    /\ KeyXForwardedFor \in DOMAIN received.Header
    /\ KeyProxyAuthorization \in DOMAIN received.Header
    /\ rt.sent[1].Header = received.Header
    /\ received.Method = "POST"

\* C20: a destination connection that was dialed is closed by the time the
\* handling of the request has ended when the tunnel was not established:
\* the writer cannot be hijacked, or Hijack returned an error.
C20_DialedConnectionNotLeaked ==
    (/\ InTrace("not_hijacker") \/ InTrace("hijack_failed")
     /\ pc = "done" \/ crashed) =>
        /\ conn["dest"].closes >= 1
        /\ conn["dest"].state = "closed"

====
